---- MODULE Spec2Model ----
(***************************************************************************)
(* State-machine model of fr_2ddoc_parser:                                  *)
(*   registry/registry.py  the process-wide TypeRegistry                    *)
(*   model/models.py       the Decoded2DDoc aggregate and its verify()      *)
(*   type/doc07_...py      the type-07 handler (CarteIdentite)              *)
(*   type/doc28_...py      the type-28 module (its body, run on import)     *)
(*   api.py                _ensure_handlers_loaded and decode_2d_doc        *)
(* Three specifications share the variables:                                *)
(*   Spec          concurrent decode_2d_doc calls (threads of one process)  *)
(*   SpecRegistry  direct calls of TypeRegistry.register / get_handler      *)
(*   SpecDoc       direct calls of Decoded2DDoc.verify and _handle_07       *)
(***************************************************************************)
EXTENDS Naturals, Sequences, FiniteSets

VARIABLES
    handlers_loaded,  \* api._handlers_loaded
    handlers,         \* _registry._handlers : code.upper() -> [handler, name]
    sys_modules,      \* modules of the type package that are fully imported
    import_owner,     \* per module: the thread executing its body (import lock), or 0
    call,             \* per thread: the decode_2d_doc call in progress
    late_write,       \* history: a registry write happened after some call's lookup
    regLog,           \* history: the register() calls made so far, in order
    lookupRes,        \* what the last direct get_handler() call since the last
                      \* registration returned
    doc,              \* a Decoded2DDoc object held by a client
    verifyRes,        \* how the last direct doc.verify() call ended
    handleRes,        \* how the last direct _handle_07(doc) call ended
    pydantic_v2       \* the installed pydantic major version is 2 (else 1)

vars == <<handlers_loaded, handlers, sys_modules, import_owner, call, late_write,
          regLog, lookupRes, doc, verifyRes, handleRes, pydantic_v2>>

----------------------------------------------------------------------------
(* Bounds *)

NThreads == 2
MaxRegs == 3

Threads == 1..NThreads

----------------------------------------------------------------------------
(* Python values: a str is a sequence of one-character strings; None is a   *)
(* value no str equals.                                                     *)

None == <<"None">>

WS == {" "}

RECURSIVE lstrip(_)
lstrip(s) == IF s # <<>> /\ Head(s) \in WS THEN lstrip(Tail(s)) ELSE s

RECURSIVE rstrip(_)
rstrip(s) ==
    IF s # <<>> /\ s[Len(s)] \in WS THEN rstrip(SubSeq(s, 1, Len(s) - 1)) ELSE s

\* str.strip()
strip(s) == rstrip(lstrip(s))

\* str.upper(), one character
UpperChar(c) ==
    CASE c = "a" -> "A"
      [] c = "b" -> "B"
      [] OTHER -> c

\* str.upper()
upper(s) == [i \in DOMAIN s |-> UpperChar(s[i])]

\* dict.get(k, default)
dict_get(d, k, default) == IF k \in DOMAIN d THEN d[k] ELSE default

\* d[k] = v
dict_set(d, k, v) == [x \in DOMAIN d \cup {k} |-> IF x = k THEN v ELSE d[x]]

EmptyDict == [x \in {} |-> None]

----------------------------------------------------------------------------
(* registry/registry.py *)

NoEntry == [handler |-> "None", name |-> "None"]

\* A registration that forgets to normalise the key's case.
TypeRegistry_register_NoUpper(h, code, handler, name) ==
    dict_set(h, code, [handler |-> handler, name |-> name])

\* TypeRegistry.register: self._handlers[code.upper()] = [handler, name]
TypeRegistry_register(h, code, handler, name) ==
    dict_set(h, upper(code), [handler |-> handler, name |-> name])

\* TypeRegistry.get: self._handlers.get(code.upper())
TypeRegistry_get(h, code) == dict_get(h, upper(code), NoEntry)

\* get_handler(code): _registry.get(code)
get_handler(h, code) == TypeRegistry_get(h, code)

\* register(code, name)(fn): _registry.register(code, fn, name)
register(h, code, name, fn) == TypeRegistry_register(h, code, fn, name)

T07 == <<"0", "7">>
T28 == <<"2", "8">>
T99 == <<"9", "9">>

\* The codes, handlers and names a client registers and looks up directly.
Codes == {T07, <<"a", "b">>, <<"A", "b">>, <<"A", "B">>}
HandlerNames ==
    {<<"_handle_07", "carte_identite">>, <<"client_handler", "carte_identite">>,
     <<"client_handler", "other_name">>}

\* A client calls _registry.register(code, handler, name).
Register(code, handler, name) ==
    /\ Len(regLog) < MaxRegs
    /\ handlers' = TypeRegistry_register(handlers, code, handler, name)
    /\ regLog' = Append(regLog, [code |-> code, handler |-> handler, name |-> name])
    /\ lookupRes' = [called |-> FALSE]
    /\ UNCHANGED <<handlers_loaded, sys_modules, import_owner, call, late_write,
                   doc, verifyRes, handleRes, pydantic_v2>>

\* A client calls get_handler(code) and keeps what it returned.
GetHandler(code) ==
    /\ lookupRes' = [called |-> TRUE, code |-> code,
                     result |-> get_handler(handlers, code)]
    /\ UNCHANGED <<handlers_loaded, handlers, sys_modules, import_owner, call,
                   late_write, regLog, doc, verifyRes, handleRes, pydantic_v2>>

----------------------------------------------------------------------------
(* model/models.py *)

NoBytes == [kind |-> "None", len |-> 0, good |-> FALSE]

Bytes(n, g) == [kind |-> "bytes", len |-> n, good |-> g]

NoView == [kind |-> "None"]

\* Python truthiness of Optional[bytes]: None and b"" are falsy.
truthy_bytes(raw) == raw.kind = "bytes" /\ raw.len > 0

\* Python truthiness of str
truthy_str(s) == s # None /\ s # <<>>

\* The key store behind local_key_resolver: the certificate ids it can resolve.
KeyStore == {"0001"}

\* KeyResolver.resolve(ca_id, cert_id): a public key, or KeyNotFound.
resolve(ca_id, cert_id) ==
    IF cert_id \in KeyStore THEN [raised |-> FALSE, err |-> "None"]
    ELSE [raised |-> TRUE, err |-> "KeyNotFound"]

\* The decoded signature lengths of the three supported curves.
SupportedLens == {64, 96, 132}

\* crypto.verify_signature(payload, raw, pub): the curve is inferred from the
\* decoded length; any other length is UnsupportedAlgorithm; otherwise the
\* ECDSA check, which holds exactly for the bytes that sign the payload.
verify_signature(sign_payload, raw, pub) ==
    IF raw.len \notin SupportedLens
    THEN [raised |-> TRUE, err |-> "UnsupportedAlgorithm", value |-> FALSE]
    ELSE [raised |-> FALSE, err |-> "None", value |-> raw.good]

\* What a call of verify leaves: whether and what it raised, whether the key
\* resolver was called, and the object afterwards.
VerifyEnd(d, raised, err, resolved) ==
    [raised |-> raised, err |-> err, resolved |-> resolved, doc |-> d]

\* verify, its steps after the presence guard.
verify_body(d) ==
    LET pub == resolve(d.header.ca_id, d.header.cert_id) IN
    IF pub.raised THEN VerifyEnd(d, TRUE, pub.err, TRUE)
    ELSE LET v == verify_signature(d.sign_payload, d.signature.raw, pub) IN
         IF v.raised THEN VerifyEnd(d, TRUE, v.err, TRUE)
         ELSE VerifyEnd([d EXCEPT !.is_valid = v.value], FALSE, "None", TRUE)

\* A verify that records "not valid" for an absent signature instead of raising.
verify_Quiet(d) ==
    IF ~d.signature.present \/ ~truthy_bytes(d.signature.raw)
    THEN VerifyEnd([d EXCEPT !.is_valid = FALSE], FALSE, "None", FALSE)
    ELSE verify_body(d)

\* Decoded2DDoc.verify(key_resolver)
verify(d) ==
    IF ~d.signature.present \/ ~truthy_bytes(d.signature.raw)
    THEN VerifyEnd(d, TRUE, "ValueError", FALSE)
    ELSE verify_body(d)

----------------------------------------------------------------------------
(* type/doc07_carte_identite.py *)

\* pydantic's check of a field annotated `str` with no default: None is refused.
pyd_str_ok(v) == v # None

\* pydantic's check of `nom_patronymique: str = None`: version 1 reads the None
\* default as Optional[str]; version 2 keeps str and refuses an explicit None.
pyd_str_default_none_ok(v, v2) == IF v2 THEN v # None ELSE TRUE

\* CarteIdentite(...): the keyword arguments built by from_decoded
CarteIdentite_kwargs(d) ==
    LET f == d.fields IN
    [kind |-> "CarteIdentite",
     doc_type |-> d.header.doc_type,
     liste_prenoms |-> strip(dict_get(f, "60", <<>>)),
     nom_patronymique |-> dict_get(f, "62", None),
     type_piece_identite |-> strip(dict_get(f, "65", <<>>)),
     numero_document |-> strip(dict_get(f, "66", <<>>)),
     nationalite |-> strip(dict_get(f, "67", <<>>)),
     genre |-> strip(dict_get(f, "68", <<>>)),
     pays_naissance |-> dict_get(f, "6C", None)]

\* The model's field validation when CarteIdentite(...) is constructed.
CarteIdentite_init_ok(o, v2) ==
    /\ o.doc_type = <<"0", "7">>
    /\ pyd_str_ok(o.liste_prenoms)
    /\ pyd_str_default_none_ok(o.nom_patronymique, v2)
    /\ pyd_str_ok(o.type_piece_identite)
    /\ pyd_str_ok(o.numero_document)
    /\ pyd_str_ok(o.nationalite)
    /\ pyd_str_ok(o.genre)
    /\ pyd_str_ok(o.pays_naissance)

\* CarteIdentite.validate: the first rule that fails, or None
CarteIdentite_validate(o) ==
    IF ~truthy_str(o.liste_prenoms) THEN "ValueError(60)"
    ELSE IF ~truthy_str(o.nationalite) THEN "ValueError(67)"
    ELSE IF ~truthy_str(o.genre) THEN "ValueError(68)"
    ELSE "None"

HandlerEnd(raised, err, view) == [raised |-> raised, err |-> err, view |-> view]

\* CarteIdentite.from_decoded(d)
from_decoded(d, v2) ==
    LET o == CarteIdentite_kwargs(d) IN
    IF ~CarteIdentite_init_ok(o, v2) THEN HandlerEnd(TRUE, "ValidationError", NoView)
    ELSE IF CarteIdentite_validate(o) # "None"
         THEN HandlerEnd(TRUE, CarteIdentite_validate(o), NoView)
         ELSE HandlerEnd(FALSE, "None", o)

\* _handle_07(doc)
handle_07(d, v2) == from_decoded(d, v2)

----------------------------------------------------------------------------
(* type/doc28_avis_impots.py, type/base.py and the import of a type module *)

\* pkgutil.iter_modules(_types_pkg.__path__): the package's modules, sorted by name
Modules == <<"base", "doc07_carte_identite", "doc28_avis_impots">>

\* The positional parameters of register(code, name)
RegisterArity == 2

\* The arguments each module's body gives the @register(...) decorator
DecoratorArgs(mod) ==
    CASE mod = "doc07_carte_identite" -> <<T07, "carte_identite">>
      [] mod = "doc28_avis_impots" -> <<T28>>
      [] OTHER -> <<>>

\* The function each module decorates
HandlerOf(mod) ==
    CASE mod = "doc07_carte_identite" -> "_handle_07"
      [] mod = "doc28_avis_impots" -> "_handle_28"
      [] OTHER -> "None"

ModuleEnd(raised, err, h) == [raised |-> raised, err |-> err, handlers |-> h]

\* Executing a module's body on its first import: base registers nothing; a
\* type module calls register(*args) and applies the result to its handler.
\* A call with the wrong number of arguments raises TypeError at that line.
ModuleBody(mod, h) ==
    LET args == DecoratorArgs(mod) IN
    IF mod = "base" THEN ModuleEnd(FALSE, "None", h)
    ELSE IF Len(args) # RegisterArity THEN ModuleEnd(TRUE, "TypeError", h)
    ELSE ModuleEnd(FALSE, "None", register(h, args[1], args[2], HandlerOf(mod)))

\* GenericDoc(doc_type=, perimeter=, country=, fields=)
GenericDoc(d) ==
    [kind |-> "GenericDoc", doc_type |-> d.header.doc_type,
     perimeter |-> d.header.perimeter, country |-> d.header.country,
     fields |-> d.fields]

\* Calling a registered handler object
CallHandler(h, d, v2) ==
    IF h = "_handle_07" THEN handle_07(d, v2)
    ELSE HandlerEnd(FALSE, "None", [kind |-> h])

----------------------------------------------------------------------------
(* Documents and inputs *)

Header(doc_type, cert_id) ==
    [doc_type |-> doc_type, perimeter |-> <<"0", "1">>, country |-> <<"F", "R">>,
     ca_id |-> "FR00", cert_id |-> cert_id]

Signature(present, raw) == [present |-> present, raw |-> raw]

\* Decoded2DDoc(header, sign_payload, fields, typed, signature, is_valid, ants_type)
Decoded2DDoc(header, fields, signature, is_valid) ==
    [header |-> header, sign_payload |-> "payload", fields |-> fields,
     typed |-> NoView, signature |-> signature, is_valid |-> is_valid,
     ants_type |-> "None"]

NoDoc == [kind |-> "None"]

\* Field maps: each id absent or holding one of a few texts
Opt(id, texts) == {EmptyDict} \cup {dict_set(EmptyDict, id, v) : v \in texts}

Merge(f, g) == [k \in DOMAIN f \cup DOMAIN g |-> IF k \in DOMAIN f THEN f[k] ELSE g[k]]

Merge2(F, G) == {Merge(f, g) : f \in F, g \in G}

FieldMaps ==
    Merge2(Opt("60", {<<>>, <<" ">>, <<"D">>, <<" ", "D", " ">>}),
    Merge2(Opt("67", {<<" ">>, <<"F">>}),
    Merge2(Opt("68", {<<" ">>, <<"M">>}),
    Merge2(Opt("62", {<<"D">>}), Opt("6C", {<<"F">>})))))

\* The field map of the scenario: 60 = DUPONT, 67 = FRA, 68 = M
FieldsMin == Merge(dict_set(EmptyDict, "60", <<"D">>),
             Merge(dict_set(EmptyDict, "67", <<"F">>), dict_set(EmptyDict, "68", <<"M">>)))

FieldsFull == Merge(FieldsMin,
              Merge(dict_set(EmptyDict, "62", <<"D">>), dict_set(EmptyDict, "6C", <<"F">>)))

FieldsNo60 == [k \in DOMAIN FieldsFull \ {"60"} |-> FieldsFull[k]]

CertIds == {"0001", "FFFF"}

RawValues ==
    {NoBytes, Bytes(0, FALSE)}
    \cup {Bytes(n, g) : n \in SupportedLens \cup {10}, g \in BOOLEAN}

\* The objects a client can build with the dataclass constructors
DocSpace ==
    {Decoded2DDoc(Header(t, c), f, Signature(p, r), v) :
        t \in {T07, T99}, c \in CertIds, f \in FieldMaps,
        p \in BOOLEAN, r \in RawValues, v \in BOOLEAN}

\* An input string, by what the parser makes of it
Input(ok, doc_type, fields, hasUS, raw, cert_id) ==
    [ok |-> ok, doc_type |-> doc_type, fields |-> fields, hasUS |-> hasUS,
     raw |-> raw, cert_id |-> cert_id]

Malformed == Input(FALSE, T99, EmptyDict, FALSE, NoBytes, "0001")

SigCases ==
    {<<FALSE, NoBytes, "0001">>, <<TRUE, Bytes(64, TRUE), "0001">>,
     <<TRUE, Bytes(64, FALSE), "0001">>, <<TRUE, Bytes(10, FALSE), "0001">>,
     <<TRUE, Bytes(64, TRUE), "FFFF">>}

Inputs ==
    {Malformed} \cup
    {Input(TRUE, t, f, s[1], s[2], s[3]) :
        t \in {T07, T28, T99}, f \in {FieldsMin, FieldsFull, FieldsNo60}, s \in SigCases}

ParseEnd(raised, err, d) == [raised |-> raised, err |-> err, doc |-> d]

\* parser.parse(data): MalformedHeader / MalformedField, or the aggregate with
\* signature.present = (the input holds a Unit-Separator), not yet verified.
parse(data) ==
    IF ~data.ok THEN ParseEnd(TRUE, "Malformed", NoDoc)
    ELSE ParseEnd(FALSE, "None",
            Decoded2DDoc(Header(data.doc_type, data.cert_id), data.fields,
                         IF data.hasUS THEN Signature(TRUE, data.raw)
                         ELSE Signature(FALSE, NoBytes), FALSE))

----------------------------------------------------------------------------
(* api.py: decode_2d_doc, one statement per step of the calling thread *)

Idle ==
    [pc |-> "idle", data |-> Malformed, doc |-> NoDoc, idx |-> 0, entry |-> NoEntry,
     outcome |-> "none", err |-> "None", resolved |-> FALSE, looked |-> FALSE]

\* The call ends by raising err to the caller.
Raise(c, err) == [c EXCEPT !.pc = "done", !.outcome = "raised", !.err = err]

\* decode_2d_doc(data), line 38: parsed_data = parse(data)
Call(t, data) ==
    /\ call[t].pc = "idle"
    /\ LET r == parse(data) IN
       call' = [call EXCEPT ![t] =
                  IF r.raised THEN Raise([Idle EXCEPT !.data = data], r.err)
                  ELSE [Idle EXCEPT !.pc = "ensure", !.data = data, !.doc = r.doc]]
    /\ UNCHANGED <<handlers_loaded, handlers, sys_modules, import_owner, late_write,
                   regLog, lookupRes, doc, verifyRes, handleRes, pydantic_v2>>

\* _ensure_handlers_loaded, lines 22-23: if _handlers_loaded: return
ensure_check(t) ==
    /\ call' = [call EXCEPT ![t] =
                  IF handlers_loaded THEN [@ EXCEPT !.pc = "lookup"]
                  ELSE [@ EXCEPT !.pc = "import", !.idx = 1]]
    /\ UNCHANGED <<handlers_loaded, handlers, sys_modules, import_owner, late_write>>

\* lines 24-25: the loop over the modules; importlib.import_module returns at
\* once for a module in sys.modules, waits while another thread executes the
\* module's body (the per-module import lock), and otherwise executes it.
import_module(t) ==
    LET i == call[t].idx IN
    IF i > Len(Modules)
    THEN /\ call' = [call EXCEPT ![t].pc = "setflag"]
         /\ UNCHANGED <<handlers_loaded, handlers, sys_modules, import_owner, late_write>>
    ELSE IF Modules[i] \in sys_modules
    THEN /\ call' = [call EXCEPT ![t].idx = i + 1]
         /\ UNCHANGED <<handlers_loaded, handlers, sys_modules, import_owner, late_write>>
    ELSE /\ import_owner[Modules[i]] = 0
         /\ import_owner' = [import_owner EXCEPT ![Modules[i]] = t]
         /\ call' = [call EXCEPT ![t].pc = "exec"]
         /\ UNCHANGED <<handlers_loaded, handlers, sys_modules, late_write>>

\* The module's body runs. A body that raises leaves the module out of
\* sys.modules and the exception leaves _ensure_handlers_loaded and decode_2d_doc.
exec_module(t) ==
    LET mod == Modules[call[t].idx]
        r == ModuleBody(mod, handlers)
    IN  /\ import_owner' = [import_owner EXCEPT ![mod] = 0]
        /\ handlers' = r.handlers
        /\ late_write' = (late_write \/
                            (r.handlers # handlers /\ \E u \in Threads : call[u].looked))
        /\ sys_modules' = IF r.raised THEN sys_modules ELSE sys_modules \cup {mod}
        /\ call' = [call EXCEPT ![t] =
                      IF r.raised THEN Raise(@, r.err)
                      ELSE [@ EXCEPT !.pc = "import", !.idx = @ + 1]]
        /\ UNCHANGED handlers_loaded

\* line 26: _handlers_loaded = True
set_loaded(t) ==
    /\ handlers_loaded' = TRUE
    /\ call' = [call EXCEPT ![t].pc = "lookup"]
    /\ UNCHANGED <<handlers, sys_modules, import_owner, late_write>>

\* line 40: tuple = get_handler(parsed_data.header.doc_type)
lookup(t) ==
    /\ call' = [call EXCEPT ![t] =
                  [@ EXCEPT !.pc = "dispatch", !.looked = TRUE,
                            !.entry = get_handler(handlers,
                                                  call[t].doc.header.doc_type)]]
    /\ UNCHANGED <<handlers_loaded, handlers, sys_modules, import_owner, late_write>>

\* lines 41-54: the registered handler's view (its failure is not caught),
\* or a GenericDoc when nothing is registered.
dispatch_end(c, v2) ==
    IF c.entry # NoEntry /\ c.entry.handler # "None"
    THEN LET r == CallHandler(c.entry.handler, c.doc, v2) IN
         IF r.raised THEN Raise(c, r.err)
         ELSE [c EXCEPT !.pc = "verify", !.doc.typed = r.view,
                        !.doc.ants_type = c.entry.name]
    ELSE [c EXCEPT !.pc = "verify", !.doc.typed = GenericDoc(c.doc)]

dispatch(t) ==
    /\ call' = [call EXCEPT ![t] = dispatch_end(@, pydantic_v2)]
    /\ UNCHANGED <<handlers_loaded, handlers, sys_modules, import_owner, late_write>>

\* lines 55-60: try: verify(...) except Exception: print a warning; return
verify_end(c) ==
    LET r == verify(c.doc) IN
    [c EXCEPT !.pc = "done", !.outcome = "returned", !.doc = r.doc,
              !.resolved = r.resolved]

verify_and_return(t) ==
    /\ call' = [call EXCEPT ![t] = verify_end(@)]
    /\ UNCHANGED <<handlers_loaded, handlers, sys_modules, import_owner, late_write>>

\* The next statement of thread t's decode_2d_doc call.
Run(t) ==
    /\ call[t].pc \notin {"idle", "done"}
    /\ CASE call[t].pc = "ensure" -> ensure_check(t)
         [] call[t].pc = "import" -> import_module(t)
         [] call[t].pc = "exec" -> exec_module(t)
         [] call[t].pc = "setflag" -> set_loaded(t)
         [] call[t].pc = "lookup" -> lookup(t)
         [] call[t].pc = "dispatch" -> dispatch(t)
         [] call[t].pc = "verify" -> verify_and_return(t)
    /\ UNCHANGED <<regLog, lookupRes, doc, verifyRes, handleRes, pydantic_v2>>

\* The caller takes the result (or the exception); the thread may call again.
Return(t) ==
    /\ call[t].pc = "done"
    /\ call' = [call EXCEPT ![t] = Idle]
    /\ UNCHANGED <<handlers_loaded, handlers, sys_modules, import_owner, late_write,
                   regLog, lookupRes, doc, verifyRes, handleRes, pydantic_v2>>

----------------------------------------------------------------------------
(* Direct calls on an aggregate *)

NoCall == [called |-> FALSE]

\* A client builds an aggregate.
NewDoc ==
    /\ doc = NoDoc
    /\ \E d \in DocSpace : doc' = d
    /\ verifyRes' = NoCall
    /\ handleRes' = NoCall
    /\ UNCHANGED <<handlers_loaded, handlers, sys_modules, import_owner, call,
                   late_write, regLog, lookupRes, pydantic_v2>>

\* A client calls doc.verify(local_key_resolver).
CallVerify ==
    /\ doc # NoDoc
    /\ LET r == verify(doc) IN
       /\ doc' = r.doc
       /\ verifyRes' = [called |-> TRUE, raised |-> r.raised, err |-> r.err,
                        resolved |-> r.resolved, before |-> doc]
    /\ UNCHANGED <<handlers_loaded, handlers, sys_modules, import_owner, call,
                   late_write, regLog, lookupRes, handleRes, pydantic_v2>>

\* A client calls _handle_07(doc).
CallHandle07 ==
    /\ doc # NoDoc
    /\ LET r == handle_07(doc, pydantic_v2) IN
       handleRes' = [called |-> TRUE, raised |-> r.raised, err |-> r.err,
                     view |-> r.view, on |-> doc]
    /\ UNCHANGED <<handlers_loaded, handlers, sys_modules, import_owner, call,
                   late_write, regLog, lookupRes, doc, verifyRes, pydantic_v2>>

----------------------------------------------------------------------------
(* Specifications *)

Init ==
    /\ handlers_loaded = FALSE
    /\ handlers = EmptyDict
    /\ sys_modules = {}
    /\ import_owner = [m \in {Modules[i] : i \in DOMAIN Modules} |-> 0]
    /\ call = [t \in Threads |-> Idle]
    /\ late_write = FALSE
    /\ regLog = <<>>
    /\ lookupRes = NoCall
    /\ doc = NoDoc
    /\ verifyRes = NoCall
    /\ handleRes = NoCall
    /\ pydantic_v2 \in BOOLEAN

Next ==
    \/ \E t \in Threads, data \in Inputs : Call(t, data)
    \/ \E t \in Threads : Run(t)
    \/ \E t \in Threads : Return(t)

Spec == Init /\ [][Next]_vars

NextRegistry ==
    \/ \E code \in Codes, hn \in HandlerNames : Register(code, hn[1], hn[2])
    \/ \E code \in Codes : GetHandler(code)

SpecRegistry == Init /\ [][NextRegistry]_vars

NextDoc ==
    \/ NewDoc
    \/ CallVerify
    \/ CallHandle07

SpecDoc == Init /\ [][NextDoc]_vars

----------------------------------------------------------------------------
(* Properties *)

\* Two characters are the same letter up to case.
SameLetter(a, b) ==
    \/ a = b
    \/ {a, b} \in {{"a", "A"}, {"b", "B"}}

\* Two codes are equal ignoring letter case.
EqIgnoreCase(c1, c2) ==
    /\ Len(c1) = Len(c2)
    /\ \A i \in DOMAIN c1 : SameLetter(c1[i], c2[i])

\* The most recent registration in the log whose code matches c ignoring case.
RECURSIVE MostRecent(_, _)
MostRecent(log, c) ==
    IF log = <<>> THEN NoEntry
    ELSE LET e == log[Len(log)] IN
         IF EqIgnoreCase(e.code, c) THEN [handler |-> e.handler, name |-> e.name]
         ELSE MostRecent(SubSeq(log, 1, Len(log) - 1), c)

\* C5: after any sequence of register calls, get_handler(c) returns the handler
\* and name of the most recent registration whose code equals c ignoring case,
\* and nothing when none matches; a lookup leaves the registry as it was (the
\* registry still answers every code from the log after it).
C5_LastRegistrationWins ==
    /\ \A c \in Codes : get_handler(handlers, c) = MostRecent(regLog, c)
    /\ lookupRes.called => lookupRes.result = MostRecent(regLog, lookupRes.code)

\* A lookup answered by the later of two registrations made under codes that
\* differ in case from each other and from the code looked up.
C5_Witness ==
    /\ lookupRes.called
    /\ Len(regLog) >= 2
    /\ LET a == regLog[Len(regLog) - 1]
           b == regLog[Len(regLog)]
       IN  /\ a.code # b.code /\ b.code # lookupRes.code /\ a.code # lookupRes.code
           /\ EqIgnoreCase(a.code, b.code) /\ EqIgnoreCase(b.code, lookupRes.code)
           /\ a.handler # b.handler
           /\ lookupRes.result = [handler |-> b.handler, name |-> b.name]

\* The signature of an aggregate is absent: not present, or no decoded bytes.
SignatureAbsent(d) == ~d.signature.present \/ ~truthy_bytes(d.signature.raw)

\* C8: verify on an aggregate whose signature is absent raises an error, does
\* not call the key resolver, and leaves is_valid (and the object) unchanged.
C8_VerifyWithoutSignatureRaises ==
    (verifyRes.called /\ SignatureAbsent(verifyRes.before)) =>
        /\ verifyRes.raised
        /\ verifyRes.err = "ValueError"
        /\ ~verifyRes.resolved
        /\ doc.is_valid = verifyRes.before.is_valid
        /\ doc = verifyRes.before

\* verify was called on an aggregate marked present but with empty signature
\* bytes, whose is_valid was True before the call.
C8_Witness ==
    /\ verifyRes.called
    /\ verifyRes.before.signature.present
    /\ verifyRes.before.signature.raw = Bytes(0, FALSE)
    /\ verifyRes.before.is_valid
    /\ verifyRes.raised

\* A field is present and not blank.
NonBlank(f, id) == id \in DOMAIN f /\ strip(f[id]) # <<>>

\* C7: the type-07 handler succeeds and yields a CarteIdentite on every type-07
\* field map in which 60, 67 and 68 are non-blank, whatever else is absent
\* (in particular on {60: DUPONT, 67: FRA, 68: M}).
C7_Original ==
    (/\ handleRes.called
     /\ handleRes.on.header.doc_type = T07
     /\ NonBlank(handleRes.on.fields, "60")
     /\ NonBlank(handleRes.on.fields, "67")
     /\ NonBlank(handleRes.on.fields, "68"))
    => (~handleRes.raised /\ handleRes.view.kind = "CarteIdentite")

\* The aggregate records why it could not be verified.
ReasonRecorded(d) == "reason" \in DOMAIN d

\* C2: after a verification that failed on the key resolver (KeyNotFound) or on
\* an unsupported signature length, the aggregate is "unverified" with the
\* reason recorded, a state distinct from the one a signature mismatch leaves
\* (is_valid = False and nothing else).
C2_Original ==
    (/\ verifyRes.called
     /\ ~SignatureAbsent(verifyRes.before)
     /\ verifyRes.err \in {"KeyNotFound", "UnsupportedAlgorithm"})
    => (ReasonRecorded(doc) /\ doc.is_valid # FALSE)

\* The registry holds both document types and the loaded flag is set.
Populated ==
    /\ handlers_loaded
    /\ get_handler(handlers, T07) # NoEntry
    /\ get_handler(handlers, T28) # NoEntry

\* A decode call has ended (returned or raised) on an input that parses.
Finished(t) == call[t].pc = "done" /\ call[t].data.ok

\* C9: the first decode call that reaches the dispatch stage loads every module
\* of the type package, registering types 07 and 28, and sets _handlers_loaded
\* (so that later calls skip loading): once a call on a parseable input has
\* ended, the registry is populated.
C9_Original ==
    \A t \in Threads : Finished(t) =>
        (Populated /\ sys_modules = {Modules[i] : i \in DOMAIN Modules})

\* An input on which every stage before verification is meant to succeed: it
\* parses, and a type-07 input carries every field the type-07 view needs.
WellFormed(data) == data.ok /\ (data.doc_type = T07 => data.fields = FieldsFull)

C4_Original ==
    \A t \in Threads :
        (Finished(t) /\ get_handler(handlers, call[t].data.doc_type) = NoEntry)
        => (/\ call[t].outcome = "returned"
            /\ call[t].doc.typed = GenericDoc(parse(call[t].data).doc)
            /\ call[t].doc.typed.fields = call[t].data.fields)

\* C6: on a well-formed input with no Unit-Separator, decode succeeds with
\* signature.present = false and a typed view that is not None.
C6_Original ==
    \A t \in Threads :
        (Finished(t) /\ WellFormed(call[t].data) /\ ~call[t].data.hasUS)
        => (/\ call[t].outcome = "returned"
            /\ ~call[t].doc.signature.present
            /\ call[t].doc.typed # NoView)

====
